---------------------------- MODULE Spec2Model ----------------------------
(***************************************************************************)
(* Grocery store server (server.js): account, catalog and order stores,    *)
(* JWT guards, guest and authenticated checkout, the SSE fan-out of new    *)
(* orders and the admin routes.  Every `await` of a handler is a point     *)
(* where other handlers run, so a handler with several awaits is several   *)
(* actions; synchronous code between two awaits is one action.             *)
(***************************************************************************)
EXTENDS Integers, Sequences, FiniteSets, TLC

VARIABLES
    users,          \* User collection: sequence, _id = index (never deleted)
    products,       \* Product collection: function _id -> document
    orders,         \* Order collection: function _id -> document
    nextOrderId,    \* next fresh Order _id
    nextProductId,  \* next fresh Product _id
    now,            \* Date.now()
    sseClients,     \* the sseClients array: sequence of [id, res]
    conns,          \* every /events connection: socket state, clientId of its closure
    received,       \* per live connection: the order ids delivered to its client
    reqs,           \* in-flight requests of the multi-await handlers, per slot
    resp            \* the response the last step sent, if it sent one

vars == <<users, products, orders, nextOrderId, nextProductId, now,
          sseClients, conns, received, reqs, resp>>

-----------------------------------------------------------------------------
(* Bounds of the model *)

MaxOrders == 2          \* orders ever created
MaxTime == 1            \* ticks of the millisecond clock

MaxUsers == MaxOrders + 2
Slots == {1, 2}         \* requests of the multi-await handlers in flight
Conns == {1, 2}         \* /events connection handles
RandVals == {0, 1}       \* Math.random() after rounding into Date.now()'s ulp

-----------------------------------------------------------------------------
(* Values *)

Has(r, f) == f \in DOMAIN r

Range(s) == {s[i] : i \in DOMAIN s}

ItemRice == [productId |-> 1, name |-> "Rice", price |-> 90, quantity |-> 2]
ItemMilk == [productId |-> 2, name |-> "Milk", price |-> 60, quantity |-> 1]

AddrA == [name |-> "A", phone |-> "123", line1 |-> "X", city |-> "Y", pincode |-> "1"]

\* Request bodies of the two checkout routes.
CheckoutBodies ==
    { [total |-> 180, deliveryAddress |-> AddrA],
      [items |-> <<>>, total |-> 180, deliveryAddress |-> AddrA],
      [items |-> <<ItemRice>>, total |-> 180, deliveryAddress |-> AddrA],
      [items |-> <<ItemMilk, ItemRice>>, total |-> 999] }

\* A response: the route, the status code, the error of a guard, the orderId
\* of a checkout's 201, the number of subscriber writes that failed while
\* it broadcast, and the _ids of the orders an order history returns.
Resp(op, code) ==
    [op |-> op, status |-> code, error |-> "", oid |-> 0, failed |-> 0,
     list |-> <<>>]

\* The response of a middleware that did not call next().
Reject(op, sent) == [Resp(op, sent.status) EXCEPT !.error = sent.error]

\* The step sent no response.
NoResp == Resp("none", 0)

Hash(password) == <<"bcrypt", password>>

\* bcrypt.compare(password, hash)
Compare(password, hash) == Hash(password) = hash

SeedAdmin ==
    [name |-> "Admin", email |-> "admin@grocery.com",
     passwordHash |-> Hash("admin123"), phone |-> "", role |-> "admin"]

SeedProducts ==
    (1 :> [name |-> "Rice", category |-> "Essentials", price |-> 90,
           unit |-> "1 kg packet", description |-> "Basmati rice", image |-> ""])
    @@
    (2 :> [name |-> "Milk", category |-> "Dairy", price |-> 60,
           unit |-> "1 litre", description |-> "Fresh milk", image |-> ""])

-----------------------------------------------------------------------------
(* Auth helpers *)

NoHeader == [kind |-> "none"]
Malformed == [kind |-> "malformed"]

\* jwt.sign({id, role, name}, JWT_SECRET, {expiresIn: '7d'})
Token(uid) ==
    [kind |-> "jwt", id |-> uid, role |-> users[uid].role, sig |-> "good",
     expired |-> FALSE]

\* Accounts that register or login issued a token to: a guest account's
\* password is a random string nobody knows, so it never logs in.
TokenHolders == {u \in DOMAIN users : users[u].passwordHash # Hash("random")}

\* Authorization headers a client can present: none, garbage, a token issued
\* to an account, such a token after its 7 days, and a token with admin
\* claims signed with another secret.
Headers ==
    {NoHeader, Malformed}
    \cup {Token(u) : u \in TokenHolders}
    \cup {[Token(u) EXCEPT !.expired = TRUE] : u \in TokenHolders}
    \cup {[kind |-> "jwt", id |-> 1, role |-> "admin", sig |-> "forged",
           expired |-> FALSE]}

\* jwt.decode in place of jwt.verify: neither signature nor expiry is checked.
jwtDecodeOnly(h) == h.kind = "jwt"

\* jwt.verify(token, JWT_SECRET): throws unless well formed, signed with the
\* secret and not expired.
jwtVerify(h) == h.kind = "jwt" /\ h.sig = "good" /\ ~h.expired

\* A middleware called next().
Pass == [status |-> 0, error |-> ""]

\* authMiddleware: what it sends, or Pass.
authMiddleware(h) ==
    IF h.kind = "none" THEN [status |-> 401, error |-> "No token"]
    ELSE IF jwtVerify(h) THEN Pass
    ELSE [status |-> 401, error |-> "Invalid token"]

\* The role check left out.
adminMiddlewareOff(h) == Pass

\* adminMiddleware, on the req.user that authMiddleware decoded.
adminMiddleware(h) ==
    IF h.role # "admin" THEN [status |-> 403, error |-> "Admin only"] ELSE Pass

\* authMiddleware, adminMiddleware in sequence.
adminGuard(h) ==
    IF authMiddleware(h) # Pass THEN authMiddleware(h) ELSE adminMiddleware(h)

-----------------------------------------------------------------------------
(* SSE *)

\* c.res.write(payload) on one subscriber: delivered while the socket is
\* open, an error (swallowed by the try/catch) once it is closed.
writeOk(c) == conns[c.res].st = "open"

\* The broadcast without the try/catch: the first failing write throws, the
\* subscribers after it are not written to.
broadcastNoCatch(oid) ==
    LET bad == {i \in DOMAIN sseClients : ~writeOk(sseClients[i])}
        stop == IF bad = {} THEN Len(sseClients) + 1
                ELSE CHOOSE i \in bad : \A j \in bad : i <= j
    IN [received |->
           [k \in DOMAIN received |->
               IF \E i \in 1..(stop - 1) : sseClients[i].res = k
               THEN Append(received[k], oid) ELSE received[k]],
        failed |-> IF bad = {} THEN 0 ELSE 1,
        threw |-> bad # {}]

\* The broadcast with one try/catch around the whole loop: the first failing
\* write ends the fan-out, and nothing is thrown to the caller.
broadcastStopsAtFailure(oid) ==
    LET bad == {i \in DOMAIN sseClients : ~writeOk(sseClients[i])}
        stop == IF bad = {} THEN Len(sseClients) + 1
                ELSE CHOOSE i \in bad : \A j \in bad : i <= j
    IN [received |->
           [k \in DOMAIN received |->
               IF \E i \in 1..(stop - 1) : sseClients[i].res = k
               THEN Append(received[k], oid) ELSE received[k]],
        failed |-> IF bad = {} THEN 0 ELSE 1,
        threw |-> FALSE]

\* broadcastNewOrder: one write per element of sseClients, each in its own
\* try/catch, so nothing is thrown to the caller.
broadcastNewOrder(oid) ==
    [received |->
        [k \in DOMAIN received |->
            IF \E i \in DOMAIN sseClients :
                  sseClients[i].res = k /\ writeOk(sseClients[i])
            THEN received[k] \o
                 [j \in 1..Cardinality({i \in DOMAIN sseClients :
                                           sseClients[i].res = k}) |-> oid]
            ELSE received[k]],
     failed |-> Cardinality({i \in DOMAIN sseClients : ~writeOk(sseClients[i])}),
     threw |-> FALSE]


\* GET /events: register the connection under clientId = Date.now() + Math.random().
Subscribe(c, r) ==
    /\ conns[c].st = "new"
    /\ \A d \in Conns : d < c => conns[d].st # "new"
    /\ conns' = [conns EXCEPT ![c] = [st |-> "open", id |-> <<now, r>>]]
    /\ sseClients' = Append(sseClients, [id |-> <<now, r>>, res |-> c])
    /\ resp' = NoResp
    /\ UNCHANGED <<users, products, orders, nextOrderId, nextProductId, now,
                   received, reqs>>

\* The remote end (or an error) closes the socket; the 'close' event of the
\* request is emitted later.
SocketClose(c) ==
    /\ conns[c].st = "open"
    /\ conns' = [conns EXCEPT ![c].st = "closed"]
    /\ resp' = NoResp
    /\ UNCHANGED <<users, products, orders, nextOrderId, nextProductId, now,
                   sseClients, received, reqs>>

\* sseClients.findIndex(c => c.id === clientId): 0 stands for -1.
findIndex(clientId) ==
    IF \E i \in DOMAIN sseClients : sseClients[i].id = clientId
    THEN CHOOSE i \in DOMAIN sseClients :
            /\ sseClients[i].id = clientId
            /\ \A j \in 1..(i - 1) : sseClients[j].id # clientId
    ELSE 0

\* sseClients.splice(idx, 1)
splice(idx) ==
    [i \in 1..(Len(sseClients) - 1) |->
        IF i < idx THEN sseClients[i] ELSE sseClients[i + 1]]

\* req.on('close'): the handler of connection c, which closed over the
\* clientId it registered with.
OnClose(c) ==
    /\ conns[c].st = "closed"
    /\ conns' = [conns EXCEPT ![c] = [st |-> "gone", id |-> <<0, 0>>]]
    /\ sseClients' = IF findIndex(conns[c].id) # 0
                     THEN splice(findIndex(conns[c].id))
                     ELSE sseClients
    /\ received' = [received EXCEPT ![c] = <<>>]
    /\ resp' = NoResp
    /\ UNCHANGED <<users, products, orders, nextOrderId, nextProductId, now,
                   reqs>>

-----------------------------------------------------------------------------
(* Requests of the handlers with more than one await *)

Idle == [kind |-> "none", pc |-> "idle", body |-> [total |-> 0], uid |-> 0,
         oid |-> 0, stamp |-> 0]

\* A new request takes the lowest slot that holds no request in flight.
Free(s) ==
    /\ reqs[s].pc = "idle"
    /\ \A t \in Slots : t < s => reqs[t].pc # "idle"

\* The check without its length test.
NoItemsMissingOnly(body) == ~Has(body, "items")

\* !items || !items.length
NoItems(body) == ~Has(body, "items") \/ Len(body.items) = 0

\* Documents that requests in flight are still going to create.
PendingUsers == Cardinality({s \in Slots : reqs[s].pc \in {"createUser", "register"}})
PendingOrders == Cardinality({s \in Slots : reqs[s].pc \in {"createUser", "createOrder"}})

\* `guest+${Date.now()}@local`
GuestEmail(t) == "guest+" \o ToString(t) \o "@local"

\* The sum of price * quantity over an item list.
RECURSIVE ItemsTotal(_)
ItemsTotal(items) ==
    IF items = <<>> THEN 0
    ELSE Head(items).price * Head(items).quantity + ItemsTotal(Tail(items))

\* The document with the total recomputed from the items.
OrderDocRecomputedTotal(userId, body) ==
    [f \in {"userId", "items", "status", "createdAt", "total"}
           \cup (DOMAIN body \cap {"deliveryAddress"}) |->
        CASE f = "userId" -> userId
          [] f = "items" -> body.items
          [] f = "status" -> "pending"
          [] f = "createdAt" -> now
          [] f = "total" -> ItemsTotal(body.items)
          [] OTHER -> body[f]]

\* The document with each item's name and price read from the catalog.
OrderDocLiveItems(userId, body) ==
    [f \in {"userId", "items", "status", "createdAt"}
           \cup (DOMAIN body \cap {"total", "deliveryAddress"}) |->
        CASE f = "userId" -> userId
          [] f = "items" ->
                [k \in DOMAIN body.items |->
                    IF body.items[k].productId \in DOMAIN products
                    THEN [body.items[k] EXCEPT
                            !.name = products[body.items[k].productId].name,
                            !.price = products[body.items[k].productId].price]
                    ELSE body.items[k]]
          [] f = "status" -> "pending"
          [] f = "createdAt" -> now
          [] OTHER -> body[f]]

\* The document new Order({userId, items, total, deliveryAddress, status:
\* 'pending'}) builds: undefined fields are absent, createdAt defaults to
\* Date.now().
OrderDoc(userId, body) ==
    [f \in {"userId", "items", "status", "createdAt"}
           \cup (DOMAIN body \cap {"total", "deliveryAddress"}) |->
        CASE f = "userId" -> userId
          [] f = "items" -> body.items
          [] f = "status" -> "pending"
          [] f = "createdAt" -> now
          [] OTHER -> body[f]]

\* The unique index on User.email.
EmailTaken(email) == \E u \in DOMAIN users : users[u].email = email

\* deliveryAddress?.name || 'Guest', deliveryAddress?.phone || ''
GuestDoc(body, stamp) ==
    [name |-> IF Has(body, "deliveryAddress") /\ Has(body.deliveryAddress, "name")
                 /\ body.deliveryAddress.name # ""
              THEN body.deliveryAddress.name ELSE "Guest",
     email |-> GuestEmail(stamp),
     passwordHash |-> Hash("random"),
     phone |-> IF Has(body, "deliveryAddress") /\ Has(body.deliveryAddress, "phone")
               THEN body.deliveryAddress.phone ELSE "",
     role |-> "user"]

\* POST /api/placeGuestOrder, up to the await of bcrypt.hash: the email was
\* built from Date.now() before the await.
GuestStart(s, body) ==
    /\ Free(s)
    /\ Len(users) + PendingUsers < MaxUsers
    /\ (nextOrderId - 1) + PendingOrders < MaxOrders
    /\ IF NoItems(body)
       THEN /\ resp' = Resp("guest", 400)
            /\ UNCHANGED reqs
       ELSE /\ reqs' = [reqs EXCEPT ![s] =
                          [Idle EXCEPT !.kind = "guest", !.pc = "createUser",
                                       !.body = body, !.stamp = now]]
            /\ resp' = NoResp
    /\ UNCHANGED <<users, products, orders, nextOrderId, nextProductId, now,
                   sseClients, conns, received>>

\* The guest checkout creating the order without creating the account.
GuestCreateNoAccount(s, ok) ==
    /\ reqs[s].kind = "guest" /\ reqs[s].pc = "createUser"
    /\ orders' = orders @@ (nextOrderId :> OrderDoc(Len(users) + 1, reqs[s].body))
    /\ nextOrderId' = nextOrderId + 1
    /\ reqs' = [reqs EXCEPT ![s] =
                  [Idle EXCEPT !.kind = "guest", !.pc = "ack", !.oid = nextOrderId]]
    /\ resp' = NoResp
    /\ UNCHANGED <<users, products, nextProductId, now, sseClients, conns, received>>

\* The guest checkout as one transaction: a failed order write leaves no
\* account behind.
GuestCreateAtomic(s, ok) ==
    /\ reqs[s].kind = "guest" /\ reqs[s].pc = "createUser"
    /\ IF EmailTaken(GuestEmail(reqs[s].stamp)) \/ ~ok
       THEN /\ reqs' = [reqs EXCEPT ![s] = Idle]
            /\ resp' = Resp("guest", 500)
            /\ UNCHANGED <<users, orders, nextOrderId>>
       ELSE /\ users' = Append(users, GuestDoc(reqs[s].body, reqs[s].stamp))
            /\ orders' = orders @@
                   (nextOrderId :> OrderDoc(Len(users) + 1, reqs[s].body))
            /\ nextOrderId' = nextOrderId + 1
            /\ reqs' = [reqs EXCEPT ![s] =
                          [Idle EXCEPT !.kind = "guest", !.pc = "ack",
                                       !.oid = nextOrderId]]
            /\ resp' = NoResp
    /\ UNCHANGED <<products, nextProductId, now, sseClients, conns, received>>

\* User.create resolves (or rejects on the unique email index) and, when it
\* resolved, Order.create builds the document and the store writes it (or
\* fails: ok = FALSE).
GuestCreate(s, ok) ==
    /\ reqs[s].kind = "guest" /\ reqs[s].pc = "createUser"
    /\ IF EmailTaken(GuestEmail(reqs[s].stamp))
       THEN /\ reqs' = [reqs EXCEPT ![s] = Idle]
            /\ resp' = Resp("guest", 500)
            /\ UNCHANGED <<users, orders, nextOrderId>>
       ELSE /\ users' = Append(users, GuestDoc(reqs[s].body, reqs[s].stamp))
            /\ IF ok
               THEN /\ orders' = orders @@
                        (nextOrderId :> OrderDoc(Len(users) + 1, reqs[s].body))
                    /\ nextOrderId' = nextOrderId + 1
                    /\ reqs' = [reqs EXCEPT ![s] =
                                  [Idle EXCEPT !.kind = "guest", !.pc = "ack",
                                               !.oid = nextOrderId]]
                    /\ resp' = NoResp
               ELSE /\ reqs' = [reqs EXCEPT ![s] = Idle]
                    /\ resp' = Resp("guest", 500)
                    /\ UNCHANGED <<orders, nextOrderId>>
    /\ UNCHANGED <<products, nextProductId, now, sseClients, conns, received>>

\* The response without the broadcast.
CheckoutAckSilent(s) ==
    /\ reqs[s].pc = "ack"
    /\ resp' = [Resp(reqs[s].kind, 201) EXCEPT !.oid = reqs[s].oid]
    /\ reqs' = [reqs EXCEPT ![s] = Idle]
    /\ UNCHANGED <<users, products, orders, nextOrderId, nextProductId, now,
                   sseClients, conns, received>>

\* After await Order.create: broadcastNewOrder(...) and res.status(201); an
\* exception out of the broadcast would reach the handler's catch (500).
CheckoutAck(s) ==
    /\ reqs[s].pc = "ack"
    /\ LET b == broadcastNewOrder(reqs[s].oid) IN
         /\ received' = b.received
         /\ resp' = IF b.threw
                    THEN [Resp(reqs[s].kind, 500) EXCEPT !.failed = b.failed]
                    ELSE [Resp(reqs[s].kind, 201) EXCEPT !.oid = reqs[s].oid,
                                                         !.failed = b.failed]
    /\ reqs' = [reqs EXCEPT ![s] = Idle]
    /\ UNCHANGED <<users, products, orders, nextOrderId, nextProductId, now,
                   sseClients, conns>>

\* POST /api/orders: authMiddleware, the item check and User.findById.
AuthOrderStart(s, h, body) ==
    /\ Free(s)
    /\ (nextOrderId - 1) + PendingOrders < MaxOrders
    /\ IF authMiddleware(h) # Pass
       THEN /\ resp' = Reject("auth", authMiddleware(h))
            /\ UNCHANGED reqs
       ELSE IF NoItems(body)
       THEN /\ resp' = Resp("auth", 400)
            /\ UNCHANGED reqs
       ELSE IF h.id \notin DOMAIN users
       THEN /\ resp' = Resp("auth", 404)
            /\ UNCHANGED reqs
       ELSE /\ reqs' = [reqs EXCEPT ![s] =
                          [Idle EXCEPT !.kind = "auth", !.pc = "createOrder",
                                       !.body = body, !.uid = h.id]]
            /\ resp' = NoResp
    /\ UNCHANGED <<users, products, orders, nextOrderId, nextProductId, now,
                   sseClients, conns, received>>

\* Order.create of the authenticated checkout.
AuthOrderCreate(s, ok) ==
    /\ reqs[s].kind = "auth" /\ reqs[s].pc = "createOrder"
    /\ IF ok
       THEN /\ orders' = orders @@ (nextOrderId :> OrderDoc(reqs[s].uid, reqs[s].body))
            /\ nextOrderId' = nextOrderId + 1
            /\ reqs' = [reqs EXCEPT ![s] =
                          [Idle EXCEPT !.kind = "auth", !.pc = "ack",
                                       !.oid = nextOrderId]]
            /\ resp' = NoResp
       ELSE /\ reqs' = [reqs EXCEPT ![s] = Idle]
            /\ resp' = Resp("auth", 500)
            /\ UNCHANGED <<orders, nextOrderId>>
    /\ UNCHANGED <<users, products, nextProductId, now, sseClients, conns, received>>

\* POST /api/auth/register up to User.findOne({email}).
RegisterStart(s, body) ==
    /\ Free(s)
    /\ Len(users) + PendingUsers < MaxUsers
    /\ IF ~Has(body, "name") \/ ~Has(body, "email") \/ ~Has(body, "password")
       THEN /\ resp' = Resp("register", 400)
            /\ UNCHANGED reqs
       ELSE IF EmailTaken(body.email)
       THEN /\ resp' = Resp("register", 400)
            /\ UNCHANGED reqs
       ELSE /\ reqs' = [reqs EXCEPT ![s] =
                          [Idle EXCEPT !.kind = "register", !.pc = "register",
                                       !.body = body]]
            /\ resp' = NoResp
    /\ UNCHANGED <<users, products, orders, nextOrderId, nextProductId, now,
                   sseClients, conns, received>>

\* bcrypt.hash, then User.create: rejected by the unique index when the
\* email was taken since findOne.
RegisterCreate(s) ==
    /\ reqs[s].kind = "register" /\ reqs[s].pc = "register"
    /\ IF EmailTaken(reqs[s].body.email)
       THEN /\ resp' = Resp("register", 500)
            /\ UNCHANGED users
       ELSE /\ users' = Append(users,
                   [name |-> reqs[s].body.name, email |-> reqs[s].body.email,
                    passwordHash |-> Hash(reqs[s].body.password), phone |-> "",
                    role |-> "user"])
            /\ resp' = Resp("register", 201)
    /\ reqs' = [reqs EXCEPT ![s] = Idle]
    /\ UNCHANGED <<products, orders, nextOrderId, nextProductId, now,
                   sseClients, conns, received>>

\* POST /api/auth/login
Login(body) ==
    /\ resp' = IF ~Has(body, "email") \/ ~Has(body, "password")
               THEN Resp("login", 400)
               ELSE IF ~EmailTaken(body.email)
               THEN Resp("login", 401)
               ELSE LET user == users[CHOOSE u \in DOMAIN users :
                                         users[u].email = body.email]
                    IN IF Compare(body.password, user.passwordHash)
                       THEN Resp("login", 200) ELSE Resp("login", 401)
    /\ UNCHANGED <<users, products, orders, nextOrderId, nextProductId, now,
                   sseClients, conns, received, reqs>>

-----------------------------------------------------------------------------
(* Admin order routes *)

OrderIds == 1..MaxOrders

\* Order.find().sort({createdAt: -1}).limit(500), as the sequence of _ids.
ListLimit == 500

RECURSIVE SortByCreatedDesc(_)
SortByCreatedDesc(ids) ==
    IF ids = {} THEN <<>>
    ELSE LET top == CHOOSE i \in ids :
                        \A j \in ids :
                           \/ orders[i].createdAt > orders[j].createdAt
                           \/ orders[i].createdAt = orders[j].createdAt /\ i >= j
         IN <<top>> \o SortByCreatedDesc(ids \ {top})

AdminOrderList ==
    LET all == SortByCreatedDesc(DOMAIN orders) IN
    SubSeq(all, 1, IF Len(all) < ListLimit THEN Len(all) ELSE ListLimit)

\* GET /api/admin/orders
AdminListOrders(h) ==
    /\ resp' = IF adminGuard(h) # Pass THEN Reject("listOrders", adminGuard(h))
               ELSE Resp("listOrders", 200)
    /\ UNCHANGED <<users, products, orders, nextOrderId, nextProductId, now,
                   sseClients, conns, received, reqs>>

\* PUT /api/admin/orders/:id/status: {status: status || 'completed'}; update
\* validators are off, so the value is stored as sent.
StatusBodies == { [status |-> "cancelled"], [status |-> ""], [other |-> 0] }

\* The status route without its default: no status in the request, no change.
AdminOrderStatusNoDefault(h, id, body) ==
    /\ IF adminGuard(h) # Pass
       THEN /\ resp' = Reject("orderStatus", adminGuard(h))
            /\ UNCHANGED orders
       ELSE IF id \in DOMAIN orders
       THEN /\ orders' = [orders EXCEPT ![id].status =
                            IF Has(body, "status") /\ body.status # ""
                            THEN body.status ELSE @]
            /\ resp' = Resp("orderStatus", 200)
       ELSE /\ resp' = Resp("orderStatus", 404)
            /\ UNCHANGED orders
    /\ UNCHANGED <<users, products, nextOrderId, nextProductId, now,
                   sseClients, conns, received, reqs>>

\* PUT /api/admin/orders/:id/status
AdminOrderStatus(h, id, body) ==
    /\ IF adminGuard(h) # Pass
       THEN /\ resp' = Reject("orderStatus", adminGuard(h))
            /\ UNCHANGED orders
       ELSE IF id \in DOMAIN orders
       THEN /\ orders' = [orders EXCEPT ![id].status =
                            IF Has(body, "status") /\ body.status # ""
                            THEN body.status ELSE "completed"]
            /\ resp' = Resp("orderStatus", 200)
       ELSE /\ resp' = Resp("orderStatus", 404)
            /\ UNCHANGED orders
    /\ UNCHANGED <<users, products, nextOrderId, nextProductId, now,
                   sseClients, conns, received, reqs>>

\* DELETE /api/admin/orders/:id: findByIdAndDelete, then success whatever it found.
AdminOrderDelete(h, id) ==
    /\ IF adminGuard(h) # Pass
       THEN /\ resp' = Reject("orderDelete", adminGuard(h))
            /\ UNCHANGED orders
       ELSE /\ orders' = [i \in DOMAIN orders \ {id} |-> orders[i]]
            /\ resp' = Resp("orderDelete", 200)
    /\ UNCHANGED <<users, products, nextOrderId, nextProductId, now,
                   sseClients, conns, received, reqs>>


-----------------------------------------------------------------------------
(* Admin product routes *)

\* Number(price) on the strings the model submits.
Number(str) ==
    CASE str = "45" -> 45
      [] str = "95" -> 95
      [] str = "0" -> 0

\* The multipart upload: no file, a file Cloudinary stores (secure_url), a
\* file whose upload is rejected.
Files == {"none", "stored", "rejected"}
SecureUrl == "https://res.cloudinary.com/p.jpg"

\* Product.create({name, description, price: Number(price), category, unit,
\* image}): undefined fields are absent, unit defaults to ''.
ProductDoc(body, file) ==
    [f \in {"name", "price", "unit", "image"}
           \cup (DOMAIN body \cap {"description", "category"}) |->
        CASE f = "price" -> Number(body.price)
          [] f = "unit" -> IF Has(body, "unit") THEN body.unit ELSE ""
          [] f = "image" -> IF file = "stored" THEN SecureUrl ELSE ""
          [] OTHER -> body[f]]

\* POST /api/admin/products
AdminProductCreate(h, body, file) ==
    /\ nextProductId <= 3
    /\ IF adminGuard(h) # Pass
       THEN /\ resp' = Reject("productCreate", adminGuard(h))
            /\ UNCHANGED <<products, nextProductId>>
       ELSE IF ~Has(body, "name") \/ body.name = ""
               \/ ~Has(body, "price") \/ body.price = ""
       THEN /\ resp' = Resp("productCreate", 400)
            /\ UNCHANGED <<products, nextProductId>>
       ELSE IF file = "rejected"
       THEN /\ resp' = Resp("productCreate", 500)
            /\ UNCHANGED <<products, nextProductId>>
       ELSE /\ products' = products @@ (nextProductId :> ProductDoc(body, file))
            /\ nextProductId' = nextProductId + 1
            /\ resp' = Resp("productCreate", 201)
    /\ UNCHANGED <<users, orders, nextOrderId, now, sseClients, conns, received, reqs>>

\* The update object of PUT /api/admin/products/:id: the body's defined
\* fields (price only when not ''), plus image when a file was uploaded.
ProductUpdate(body, file) ==
    [f \in {g \in DOMAIN body \cap {"name", "description", "price", "category", "unit"} :
               g = "price" => body.price # ""}
           \cup (IF file = "stored" THEN {"image"} ELSE {}) |->
        CASE f = "price" -> Number(body.price)
          [] f = "image" -> SecureUrl
          [] OTHER -> body[f]]

\* The update replacing the document instead of setting its fields.
ApplyReplace(doc, update) == update

\* Product.findByIdAndUpdate(id, update): $set of the update's fields.
ApplyUpdate(doc, update) ==
    [f \in DOMAIN doc \cup DOMAIN update |->
        IF f \in DOMAIN update THEN update[f] ELSE doc[f]]

\* PUT /api/admin/products/:id
AdminProductUpdate(h, id, body, file) ==
    /\ IF adminGuard(h) # Pass
       THEN /\ resp' = Reject("productUpdate", adminGuard(h))
            /\ UNCHANGED products
       ELSE IF file = "rejected"
       THEN /\ resp' = Resp("productUpdate", 500)
            /\ UNCHANGED products
       ELSE IF id \in DOMAIN products
       THEN /\ products' = [products EXCEPT ![id] = ApplyUpdate(@, ProductUpdate(body, file))]
            /\ resp' = Resp("productUpdate", 200)
       ELSE /\ resp' = Resp("productUpdate", 404)
            /\ UNCHANGED products
    /\ UNCHANGED <<users, orders, nextOrderId, nextProductId, now,
                   sseClients, conns, received, reqs>>

\* DELETE /api/admin/products/:id
AdminProductDelete(h, id) ==
    /\ IF adminGuard(h) # Pass
       THEN /\ resp' = Reject("productDelete", adminGuard(h))
            /\ UNCHANGED products
       ELSE IF id \in DOMAIN products
       THEN /\ products' = [i \in DOMAIN products \ {id} |-> products[i]]
            /\ resp' = Resp("productDelete", 200)
       ELSE /\ resp' = Resp("productDelete", 404)
            /\ UNCHANGED products
    /\ UNCHANGED <<users, orders, nextOrderId, nextProductId, now,
                   sseClients, conns, received, reqs>>

-----------------------------------------------------------------------------
(* Account routes behind authMiddleware *)

\* The profile route assigning email and passwordHash whether or not the
\* request supplied them.
AuthProfileAssignsAll(h, body) ==
    /\ IF authMiddleware(h) # Pass
       THEN /\ resp' = Reject("profile", authMiddleware(h))
            /\ UNCHANGED users
       ELSE IF h.id \notin DOMAIN users
       THEN /\ resp' = Resp("profile", 404)
            /\ UNCHANGED users
       ELSE IF ~Compare(IF Has(body, "currentPassword") THEN body.currentPassword ELSE "",
                        users[h.id].passwordHash)
       THEN /\ resp' = Resp("profile", 401)
            /\ UNCHANGED users
       ELSE /\ users' = [users EXCEPT
                           ![h.id].email = IF Has(body, "email") THEN body.email ELSE "",
                           ![h.id].passwordHash =
                               Hash(IF Has(body, "newPassword") THEN body.newPassword ELSE "")]
            /\ resp' = Resp("profile", 200)
    /\ UNCHANGED <<products, orders, nextOrderId, nextProductId, now,
                   sseClients, conns, received, reqs>>

\* PUT /api/auth/profile
AuthProfile(h, body) ==
    /\ IF authMiddleware(h) # Pass
       THEN /\ resp' = Reject("profile", authMiddleware(h))
            /\ UNCHANGED users
       ELSE IF h.id \notin DOMAIN users
       THEN /\ resp' = Resp("profile", 404)
            /\ UNCHANGED users
       ELSE IF ~Compare(IF Has(body, "currentPassword") THEN body.currentPassword ELSE "",
                        users[h.id].passwordHash)
       THEN /\ resp' = Resp("profile", 401)
            /\ UNCHANGED users
       ELSE LET e == IF Has(body, "email") /\ body.email # ""
                     THEN body.email ELSE users[h.id].email
                pw == IF Has(body, "newPassword") /\ body.newPassword # ""
                      THEN Hash(body.newPassword) ELSE users[h.id].passwordHash
            IN IF \E u \in DOMAIN users \ {h.id} : users[u].email = e
               THEN /\ resp' = Resp("profile", 500)
                    /\ UNCHANGED users
               ELSE /\ users' = [users EXCEPT ![h.id].email = e,
                                              ![h.id].passwordHash = pw]
                    /\ resp' = Resp("profile", 200)
    /\ UNCHANGED <<products, orders, nextOrderId, nextProductId, now,
                   sseClients, conns, received, reqs>>

\* GET /api/me
GetMe(h) ==
    /\ resp' = IF authMiddleware(h) # Pass THEN Reject("getMe", authMiddleware(h))
               ELSE IF h.id \notin DOMAIN users THEN Resp("getMe", 404)
               ELSE Resp("getMe", 200)
    /\ UNCHANGED <<users, products, orders, nextOrderId, nextProductId, now,
                   sseClients, conns, received, reqs>>

\* PUT /api/me assigning every field of the body to the account.
PutMeAssignsBody(h, body) ==
    /\ IF authMiddleware(h) # Pass
       THEN /\ resp' = Reject("putMe", authMiddleware(h))
            /\ UNCHANGED users
       ELSE IF h.id \notin DOMAIN users
       THEN /\ resp' = Resp("putMe", 404)
            /\ UNCHANGED users
       ELSE /\ users' = [users EXCEPT ![h.id] =
                           [f \in DOMAIN @ |->
                               IF f \in DOMAIN body THEN body[f] ELSE @[f]]]
            /\ resp' = Resp("putMe", 200)
    /\ UNCHANGED <<products, orders, nextOrderId, nextProductId, now,
                   sseClients, conns, received, reqs>>

\* PUT /api/me
PutMe(h, body) ==
    /\ IF authMiddleware(h) # Pass
       THEN /\ resp' = Reject("putMe", authMiddleware(h))
            /\ UNCHANGED users
       ELSE IF h.id \notin DOMAIN users
       THEN /\ resp' = Resp("putMe", 404)
            /\ UNCHANGED users
       ELSE /\ users' = [users EXCEPT ![h.id] =
                           [f \in DOMAIN @ |->
                               IF f \in DOMAIN body \cap {"name", "phone"}
                               THEN body[f] ELSE @[f]]]
            /\ resp' = Resp("putMe", 200)
    /\ UNCHANGED <<products, orders, nextOrderId, nextProductId, now,
                   sseClients, conns, received, reqs>>

\* The find without its filter.
MyOrdersAll(uid) == DOMAIN orders

\* Order.find({userId: req.user.id}), the _ids found.
MyOrders(uid) == {i \in DOMAIN orders : orders[i].userId = uid}

\* GET /api/orders/my
GetMyOrders(h) ==
    /\ resp' = IF authMiddleware(h) # Pass THEN Reject("myOrders", authMiddleware(h))
               ELSE [Resp("myOrders", 200) EXCEPT
                        !.list = SortByCreatedDesc(MyOrders(h.id))]
    /\ UNCHANGED <<users, products, orders, nextOrderId, nextProductId, now,
                   sseClients, conns, received, reqs>>

-----------------------------------------------------------------------------
(* The clock, the initial state and the specifications *)

\* Date.now() was read at the current millisecond by something still in the
\* state.  The clock is visible only through those reads, so a tick after an
\* unobserved millisecond leads to the same state up to renaming the instants.
Observed ==
    \/ \E c \in Conns : conns[c].st \in {"open", "closed"} /\ conns[c].id[1] = now
    \/ \E i \in DOMAIN orders : orders[i].createdAt = now
    \/ \E s \in Slots : reqs[s].pc = "createUser" /\ reqs[s].stamp = now
    \/ EmailTaken(GuestEmail(now))

Tick ==
    /\ now < MaxTime
    /\ Observed
    /\ now' = now + 1
    /\ resp' = NoResp
    /\ UNCHANGED <<users, products, orders, nextOrderId, nextProductId,
                   sseClients, conns, received, reqs>>

\* After seed() on an empty database.
Init ==
    /\ users = <<SeedAdmin>>
    /\ products = SeedProducts
    /\ orders = <<>>
    /\ nextOrderId = 1
    /\ nextProductId = 3
    /\ now = 0
    /\ sseClients = <<>>
    /\ conns = [c \in Conns |-> [st |-> "new", id |-> <<0, 0>>]]
    /\ received = [c \in Conns |-> <<>>]
    /\ reqs = [s \in Slots |-> Idle]
    /\ resp = NoResp

\* Checkout and the fan-out: subscribers come and go while guest and
\* authenticated checkouts (by the seeded account) run concurrently.
FanOutBodies == { [items |-> <<ItemRice>>, total |-> 180, deliveryAddress |-> AddrA] }

NextFanOut ==
    \/ Tick
    \/ \E c \in Conns, r \in RandVals : Subscribe(c, r)
    \/ \E c \in Conns : SocketClose(c)
    \/ \E c \in Conns : OnClose(c)
    \/ \E s \in Slots, body \in FanOutBodies : GuestStart(s, body)
    \/ \E s \in Slots : GuestCreate(s, TRUE)
    \/ \E s \in Slots, body \in FanOutBodies : AuthOrderStart(s, Token(1), body)
    \/ \E s \in Slots : AuthOrderCreate(s, TRUE)
    \/ \E s \in Slots : CheckoutAck(s)

SpecFanOut == Init /\ [][NextFanOut]_vars

-----------------------------------------------------------------------------
\* Checkout and order administration: guests and the seeded account place
\* orders, one request at a time, while the admin lists, updates and deletes
\* orders and the clock advances.
Next ==
    \/ Tick
    \/ \E body \in CheckoutBodies : GuestStart(1, body)
    \/ GuestCreate(1, TRUE)
    \/ \E body \in CheckoutBodies : AuthOrderStart(1, Token(1), body)
    \/ \E ok \in BOOLEAN : AuthOrderCreate(1, ok)
    \/ CheckoutAck(1)
    \/ AdminListOrders(Token(1))
    \/ \E id \in OrderIds, body \in StatusBodies : AdminOrderStatus(Token(1), id, body)
    \/ \E id \in OrderIds : AdminOrderDelete(Token(1), id)

Spec == Init /\ [][Next]_vars

-----------------------------------------------------------------------------
\* Checkout and the catalog: orders are placed while the admin creates,
\* updates and deletes products and updates and deletes orders.
ProductBodies ==
    { [name |-> "Sugar", price |-> "45", category |-> "Essentials"],
      [name |-> "Sugar"] }

\* Update requests: a body and what comes as its file.
ProductUpdates ==
    { <<[price |-> "95"], "none">>,
      <<[name |-> "Basmati", price |-> ""], "stored">>,
      <<[price |-> "0"], "rejected">> }

ProductIds == {1, 3}

NextCatalog ==
    \/ \E body \in CheckoutBodies : GuestStart(1, body)
    \/ GuestCreate(1, TRUE)
    \/ \E body \in CheckoutBodies : AuthOrderStart(1, Token(1), body)
    \/ AuthOrderCreate(1, TRUE)
    \/ CheckoutAck(1)
    \/ \E id \in OrderIds : AdminOrderStatus(Token(1), id, [other |-> 0])
    \/ \E id \in OrderIds : AdminOrderDelete(Token(1), id)
    \/ \E body \in ProductBodies : AdminProductCreate(Token(1), body, "none")
    \/ \E u \in ProductUpdates : AdminProductUpdate(Token(1), 1, u[1], u[2])
    \/ \E id \in ProductIds : AdminProductDelete(Token(1), id)

SpecCatalog == Init /\ [][NextCatalog]_vars

-----------------------------------------------------------------------------
\* The guards: an account registers, and every route behind authMiddleware
\* is called with every kind of Authorization header.  One order is placed,
\* for the order routes to have something to act on.
NewAccounts == { [name |-> "Asha", email |-> "asha@x.in", password |-> "pw1"] }

GuardCheckout == { [items |-> <<ItemRice>>, total |-> 180, deliveryAddress |-> AddrA] }

ProfileBodies == { [currentPassword |-> "pw1", newPassword |-> "pw2"] }

MeBodies == { [phone |-> "999"] }

NextGuard ==
    \/ \E body \in NewAccounts : RegisterStart(1, body)
    \/ RegisterCreate(1)
    \/ \E h \in Headers, body \in GuardCheckout :
          nextOrderId = 1 /\ AuthOrderStart(1, h, body)
    \/ AuthOrderCreate(1, TRUE)
    \/ CheckoutAck(1)
    \/ \E h \in Headers : GetMyOrders(h)
    \/ \E h \in Headers, body \in ProfileBodies : AuthProfile(h, body)
    \/ \E h \in Headers : GetMe(h)
    \/ \E h \in Headers, body \in MeBodies : PutMe(h, body)
    \/ \E h \in Headers : AdminListOrders(h)
    \/ \E h \in Headers : AdminOrderStatus(h, 1, [other |-> 0])
    \/ \E h \in Headers : AdminOrderDelete(h, 1)
    \/ \E h \in Headers : AdminProductCreate(h, [name |-> "Sugar", price |-> "45"], "none")
    \/ \E h \in Headers : AdminProductUpdate(h, 1, [price |-> "95"], "none")
    \/ \E h \in Headers : AdminProductDelete(h, 3)

SpecGuard == Init /\ [][NextGuard]_vars

-----------------------------------------------------------------------------
\* Order statuses: orders are placed one request at a time and the admin
\* submits status values, among them one outside the schema's enum.
SubmittedStatuses ==
    { [status |-> "completed"], [status |-> "cancelled"], [status |-> "shipped"] }

NextStatus ==
    \/ Tick
    \/ \E body \in FanOutBodies : GuestStart(1, body)
    \/ GuestCreate(1, TRUE)
    \/ \E body \in FanOutBodies : AuthOrderStart(1, Token(1), body)
    \/ AuthOrderCreate(1, TRUE)
    \/ CheckoutAck(1)
    \/ \E id \in OrderIds, body \in SubmittedStatuses :
          AdminOrderStatus(Token(1), id, body)

SpecStatus == Init /\ [][NextStatus]_vars

-----------------------------------------------------------------------------
\* Roles: every route that writes an account is called with a body that asks
\* for the admin role.
RoleAccounts ==
    { [name |-> "Mallory", email |-> "m@x.in", password |-> "pw9", role |-> "admin"] }

RoleLogins == { [email |-> "m@x.in", password |-> "pw9"] }

RoleProfileBodies ==
    { [currentPassword |-> "pw9", newPassword |-> "pw8", role |-> "admin"] }

RoleMeBodies == { [name |-> "Root", role |-> "admin"], [phone |-> "999"] }

RoleCheckouts == { [items |-> <<ItemRice>>, total |-> 180, role |-> "admin"] }

NextRoles ==
    \/ \E body \in RoleAccounts : RegisterStart(1, body)
    \/ RegisterCreate(1)
    \/ \E body \in RoleLogins : Login(body)
    \/ \E u \in TokenHolders, body \in RoleProfileBodies : AuthProfile(Token(u), body)
    \/ \E u \in TokenHolders, body \in RoleMeBodies : PutMe(Token(u), body)
    \/ \E body \in RoleCheckouts : GuestStart(1, body)
    \/ GuestCreate(1, TRUE)
    \/ \E u \in TokenHolders, body \in RoleCheckouts : AuthOrderStart(1, Token(u), body)
    \/ AuthOrderCreate(1, TRUE)
    \/ CheckoutAck(1)

SpecRoles == Init /\ [][NextRoles]_vars

-----------------------------------------------------------------------------
\* Checkout failures: one checkout at a time, whose order store write may
\* fail, while subscribers come and go.
FailureBodies ==
    { [items |-> <<ItemRice>>, total |-> 180, deliveryAddress |-> AddrA],
      [items |-> <<>>, total |-> 0] }

NextFailure ==
    \/ Tick
    \/ \E c \in Conns, r \in RandVals : Subscribe(c, r)
    \/ \E c \in Conns : SocketClose(c)
    \/ \E c \in Conns : OnClose(c)
    \/ \E body \in FailureBodies : GuestStart(1, body)
    \/ \E ok \in BOOLEAN : GuestCreate(1, ok)
    \/ \E body \in FailureBodies : AuthOrderStart(1, Token(1), body)
    \/ \E ok \in BOOLEAN : AuthOrderCreate(1, ok)
    \/ CheckoutAck(1)

SpecFailure == Init /\ [][NextFailure]_vars

-----------------------------------------------------------------------------
\* Order histories: an account registers; it, the seeded account and guests
\* place orders, one request at a time; accounts read their history and the
\* admin deletes orders.  One checkout body names another account as userId.
HistoryBodies ==
    { [items |-> <<ItemRice>>, total |-> 180, deliveryAddress |-> AddrA],
      [items |-> <<ItemMilk>>, total |-> 60, userId |-> 1] }

NextHistory ==
    \/ Tick
    \/ \E body \in NewAccounts : RegisterStart(1, body)
    \/ RegisterCreate(1)
    \/ \E body \in HistoryBodies : GuestStart(1, body)
    \/ GuestCreate(1, TRUE)
    \/ \E u \in TokenHolders, body \in HistoryBodies : AuthOrderStart(1, Token(u), body)
    \/ AuthOrderCreate(1, TRUE)
    \/ CheckoutAck(1)
    \/ \E u \in TokenHolders : GetMyOrders(Token(u))
    \/ \E id \in OrderIds : AdminOrderDelete(Token(1), id)

SpecHistory == Init /\ [][NextHistory]_vars

-----------------------------------------------------------------------------
\* Accounts: register requests, two of them with the same email, run
\* concurrently; accounts log in and change their profile.
AccountBodies ==
    { [name |-> "Asha", email |-> "asha@x.in", password |-> "pw1"],
      [name |-> "Ravi", email |-> "asha@x.in", password |-> "pw2"],
      [name |-> "Asha", email |-> "asha@x.in"] }

LoginBodies ==
    { [email |-> "asha@x.in", password |-> "pw1"],
      [email |-> "asha@x.in", password |-> "pw2"],
      [email |-> "asha@x.in"] }

AccountProfileBodies ==
    { [currentPassword |-> "pw1"],
      [currentPassword |-> "pw1", newPassword |-> "pw3"],
      [currentPassword |-> "pw1", email |-> "asha@y.in"],
      [newPassword |-> "pw3"] }

NextAccounts ==
    \/ \E s \in Slots, body \in AccountBodies : RegisterStart(s, body)
    \/ \E s \in Slots : RegisterCreate(s)
    \/ \E body \in LoginBodies : Login(body)
    \/ \E u \in TokenHolders, body \in AccountProfileBodies : AuthProfile(Token(u), body)

SpecAccounts == Init /\ [][NextAccounts]_vars

-----------------------------------------------------------------------------
(* Checkout properties *)

\* The item list of a request body is missing or empty.
MissingOrEmpty(body) == ("items" \notin DOMAIN body) \/ body.items = <<>>

\* C1: a guest or authenticated checkout whose item list is missing or empty
\* is answered 400, and it persists no order, creates no account, starts no
\* work in the handler and broadcasts nothing.
C1_EmptyItemsRejected ==
    [][\A body \in CheckoutBodies :
          (MissingOrEmpty(body)
             /\ (GuestStart(1, body) \/ AuthOrderStart(1, Token(1), body)))
          => /\ resp'.status = 400
             /\ orders' = orders /\ users' = users
             /\ reqs' = reqs /\ received' = received]_vars

\* An empty checkout was rejected while an order was in the store.
C1_Witness == resp.op \in {"guest", "auth"} /\ resp.status = 400 /\ DOMAIN orders # {}

\* C2: the order a checkout persists holds exactly the item list the request
\* submitted, and no step of any operation (product create, update, delete,
\* order status update, other checkouts) changes the items of an order that
\* stays in the store.
C2_ItemSnapshotImmutable ==
    [][/\ \A i \in DOMAIN orders' \ DOMAIN orders :
              orders'[i].items = reqs[1].body.items
       /\ \A i \in DOMAIN orders \cap DOMAIN orders' :
              orders'[i].items = orders[i].items]_vars

\* An order whose status was updated holds an item of a product that was
\* since renamed, repriced or deleted.
C2_Witness ==
    \E i \in DOMAIN orders :
        /\ orders[i].status = "completed"
        /\ \E k \in DOMAIN orders[i].items :
              LET it == orders[i].items[k] IN
              \/ it.productId \notin DOMAIN products
              \/ products[it.productId].price # it.price
              \/ products[it.productId].name # it.name

\* The admin listing shows order i.
Listed(i) == \E k \in DOMAIN AdminOrderList : AdminOrderList[k] = i

\* C3: the order a checkout persists has the total and the delivery address
\* of the request body as sent and status pending, and the admin listing
\* taken next shows it; the checkout then responds 201 with that order's id;
\* afterwards the total and address of a stored order never change, its
\* status changes only by the admin status route, and the listing keeps
\* showing it.
C3_OrderAsSubmitted ==
    [][/\ \A i \in DOMAIN orders' \ DOMAIN orders :
              LET b == reqs[1].body IN
              /\ orders'[i].total = b.total
              /\ ("deliveryAddress" \in DOMAIN orders'[i]) = ("deliveryAddress" \in DOMAIN b)
              /\ ("deliveryAddress" \in DOMAIN b
                     => orders'[i].deliveryAddress = b.deliveryAddress)
              /\ orders'[i].status = "pending"
              /\ reqs'[1].pc = "ack" /\ reqs'[1].oid = i
       /\ (reqs[1].pc = "ack" /\ reqs'[1].pc # "ack")
              => resp'.status = 201 /\ resp'.oid = reqs[1].oid
       /\ \A i \in DOMAIN orders \cap DOMAIN orders' :
              /\ orders'[i].total = orders[i].total
              /\ DOMAIN orders'[i] = DOMAIN orders[i]
              /\ ("deliveryAddress" \in DOMAIN orders[i]
                     => orders'[i].deliveryAddress = orders[i].deliveryAddress)
              /\ (orders'[i].status # orders[i].status => resp'.op = "orderStatus")
       /\ \A i \in DOMAIN orders' : Listed(i)']_vars

\* A checkout was answered 201 with the id of a pending order whose total is
\* not the sum of its items, and the listing shows that order first.
C3_Witness ==
    /\ resp.status = 201 /\ resp.oid \in DOMAIN orders
    /\ orders[resp.oid].status = "pending"
    /\ orders[resp.oid].total # ItemsTotal(orders[resp.oid].items)
    /\ Len(AdminOrderList) = 2 /\ AdminOrderList[1] = resp.oid

\* C4: in every reachable state the owner of every stored order is an
\* account of the account store.
C4_OrderOwnerExists ==
    \A i \in DOMAIN orders : orders[i].userId \in DOMAIN users

\* One stored order is owned by a throwaway guest account, another by the
\* account of the token that placed it.
C4_Witness ==
    \E i, j \in DOMAIN orders :
        /\ orders[i].userId \in DOMAIN users
        /\ users[orders[i].userId].email = GuestEmail(orders[i].createdAt)
        /\ orders[j].userId = 1

-----------------------------------------------------------------------------
(* Fan-out properties *)

\* The step is the broadcast and response of the checkout in slot s.
Broadcasts(s) == reqs[s].pc = "ack" /\ reqs'[s].pc # "ack"

\* The number of events for order o in a stream of events.
Count(stream, o) == Cardinality({k \in DOMAIN stream : stream[k] = o})

\* C6: whatever the state of the subscribers, the step that broadcasts the
\* order of a checkout answers 201 with the id of that order and leaves the
\* order store as it was.
C6_BroadcastNeverFailsCheckout ==
    [][\A s \in Slots :
          Broadcasts(s) => /\ resp'.status = 201
                           /\ resp'.oid = reqs[s].oid
                           /\ orders' = orders]_vars

\* A checkout was answered 201 with the id of a stored order although a
\* write to a subscriber failed during its broadcast.
C6_Witness == resp.status = 201 /\ resp.failed > 0 /\ resp.oid \in DOMAIN orders


\* C5: when a checkout broadcasts its order, every subscriber whose
\* connection is open at that moment has received exactly one event for the
\* order after the step; and a connection that subscribes starts with no
\* event of any earlier order.
C5_ConnectedSubscriberGetsOneEvent ==
    [][/\ \A s \in Slots :
              Broadcasts(s) =>
                 \A c \in Conns :
                    conns[c].st = "open" => Count(received'[c], reqs[s].oid) = 1
       /\ \A c \in Conns :
              (conns[c].st = "new" /\ conns'[c].st = "open") => received'[c] = <<>>]_vars

\* C7: every subscriber receives the order events in the order in which the
\* orders were created (the order of their _ids).
C7_EventsInCreationOrder ==
    \A c \in Conns :
        \A k1, k2 \in DOMAIN received[c] :
            k1 < k2 => received[c][k1] < received[c][k2]

\* The subscribers array without the entries of connection c.
RECURSIVE Without(_, _)
Without(seq, c) ==
    IF seq = <<>> THEN <<>>
    ELSE IF Head(seq).res = c THEN Without(Tail(seq), c)
    ELSE <<Head(seq)>> \o Without(Tail(seq), c)

\* C8: a broadcast writes exactly once to every subscriber registered and
\* open at that moment, and the close handler of a connection removes the
\* entry of that connection and no other.
C8_NoLostOrDuplicatedBroadcast ==
    [][/\ \A s \in Slots :
              Broadcasts(s) =>
                 \A i \in DOMAIN sseClients :
                    writeOk(sseClients[i]) =>
                       received'[sseClients[i].res] =
                          Append(received[sseClients[i].res], reqs[s].oid)
       /\ \A c \in Conns :
              (conns[c].st = "closed" /\ conns'[c].st = "gone")
                 => sseClients' = Without(sseClients, c)]_vars

\* C17: the subscriber set holds exactly the connections opened through
\* GET /events that have not closed: every open connection has one entry, and
\* every entry belongs to a connection that is open or whose close event is
\* still to be handled; once the close handler ran, no entry of the
\* connection is left for a later broadcast to write to.
C17_SubscribersAreLiveConnections ==
    /\ \A c \in Conns :
          conns[c].st = "open" =>
             Cardinality({i \in DOMAIN sseClients : sseClients[i].res = c}) = 1
    /\ \A i \in DOMAIN sseClients :
          conns[sseClients[i].res].st \in {"open", "closed"}

\* The guest checkout in slot s gets the outcome of its User.create.
GuestAccountStep(s) ==
    /\ reqs[s].kind = "guest" /\ reqs[s].pc = "createUser"
    /\ reqs'[s].pc # "createUser"

\* C18: every guest checkout with items, also one handled concurrently with
\* another in the same clock tick, creates an account whose email no other
\* account has, and goes on to store its own order under that account.
C18_GuestEmailsUnique ==
    [][\A s \in Slots :
          GuestAccountStep(s) =>
             /\ Len(users') = Len(users) + 1
             /\ \A u \in DOMAIN users : users[u].email # users'[Len(users')].email
             /\ reqs'[s].pc = "ack"
             /\ reqs'[s].oid \in DOMAIN orders' \ DOMAIN orders
             /\ orders'[reqs'[s].oid].userId = Len(users')]_vars

\* C22: in one broadcast a failing write is swallowed and does not stop the
\* fan-out: every registered subscriber that can be written to gets the event
\* appended to its stream, also behind a failing one; a subscriber whose write
\* failed gets nothing, then or later (no retry, no buffer); the subscriber
\* array is left as it is and the request ends with that step.
C22_FailedWriteDoesNotStopFanOut ==
    [][/\ \A s \in Slots :
              Broadcasts(s) =>
                 /\ \A i \in DOMAIN sseClients :
                       received'[sseClients[i].res] =
                          IF writeOk(sseClients[i])
                          THEN Append(received[sseClients[i].res], reqs[s].oid)
                          ELSE received[sseClients[i].res]
                 /\ resp'.failed =
                       Cardinality({i \in DOMAIN sseClients : ~writeOk(sseClients[i])})
                 /\ sseClients' = sseClients
                 /\ reqs'[s] = Idle
       /\ \A c \in Conns :
              conns[c].st # "open" => Len(received'[c]) <= Len(received[c])]_vars

\* A broadcast whose first subscriber had closed and whose second was open:
\* one write failed, the second subscriber has the event and the first has
\* nothing.
C22_Witness ==
    /\ resp.status = 201 /\ resp.failed = 1
    /\ Len(sseClients) = 2
    /\ conns[sseClients[1].res].st = "closed" /\ received[sseClients[1].res] = <<>>
    /\ conns[sseClients[2].res].st = "open"
    /\ received[sseClients[2].res] = <<resp.oid>>

-----------------------------------------------------------------------------
(* Guard properties *)

\* The step is a request to one of the six /api/admin routes with header h.
AdminCall(h) ==
    \/ AdminListOrders(h)
    \/ AdminOrderStatus(h, 1, [other |-> 0])
    \/ AdminOrderDelete(h, 1)
    \/ AdminProductCreate(h, [name |-> "Sugar", price |-> "45"], "none")
    \/ AdminProductUpdate(h, 1, [price |-> "95"], "none")
    \/ AdminProductDelete(h, 3)

\* The step is a request to one of the routes behind authMiddleware.
ProtectedCall(h) ==
    \/ AdminCall(h)
    \/ \E body \in GuardCheckout : AuthOrderStart(1, h, body)
    \/ GetMyOrders(h)
    \/ \E body \in ProfileBodies : AuthProfile(h, body)
    \/ GetMe(h)
    \/ \E body \in MeBodies : PutMe(h, body)

\* A token signed with the secret, not expired, whose role is not admin.
NonAdminToken(h) ==
    h.kind = "jwt" /\ h.sig = "good" /\ ~h.expired /\ h.role # "admin"

\* A header with a token that is malformed, wrongly signed or expired.
BadToken(h) ==
    \/ h.kind = "malformed"
    \/ h.kind = "jwt" /\ (h.sig # "good" \/ h.expired)

\* C9: a request with a validly signed non-admin token to any /api/admin
\* route is answered 403 and leaves the catalog and the order store unchanged.
C9_NonAdminForbidden ==
    [][\A h \in Headers :
          (NonAdminToken(h) /\ AdminCall(h))
          => /\ resp'.status = 403
             /\ products' = products /\ orders' = orders]_vars

\* A registered account's token was refused on the order delete route while
\* an order was in the store.
C9_Witness ==
    /\ resp.op = "orderDelete" /\ resp.status = 403
    /\ DOMAIN orders # {} /\ Len(users) > 1

\* C10: on every route behind authMiddleware a request without Authorization
\* header is answered 401 'No token', and one whose token is malformed,
\* wrongly signed or expired is answered 401 'Invalid token'; in both cases
\* no handler state is created and no store changes.  (Written as a
\* disjunction: the step has that outcome, or h is acceptable, or the step is
\* not a request with h to a protected route.)
C10_Unauthenticated ==
    [][\A h \in Headers :
          \/ /\ resp'.status = 401
             /\ resp'.error = IF h.kind = "none" THEN "No token" ELSE "Invalid token"
             /\ UNCHANGED <<users, products, orders, nextOrderId, nextProductId,
                            reqs, sseClients, received>>
          \/ ~(h.kind = "none" \/ BadToken(h))
          \/ ~ProtectedCall(h)]_vars

\* A request to the profile route was refused for its token while a
\* registered account and an order existed.
C10_Witness ==
    /\ resp.op = "profile" /\ resp.status = 401 /\ resp.error = "Invalid token"
    /\ DOMAIN orders # {} /\ Len(users) > 1

-----------------------------------------------------------------------------
(* Account properties *)

\* The step answers a register request.
RegisterAnswered == resp'.op = "register" /\ resp'.status # 0

\* C11: of register requests with the same email, overlapping or not, one
\* creates the account and every other is answered 400; no two accounts share
\* an email, and a register request leaves the accounts that exist as they
\* are (so the first registrant's password still logs in).
C11_DuplicateRegisterConflict ==
    [][RegisterAnswered =>
          /\ \A u \in DOMAIN users : u \in DOMAIN users' /\ users'[u] = users[u]
          /\ \A u1, u2 \in DOMAIN users' :
                users'[u1].email = users'[u2].email => u1 = u2
          /\ IF Len(users') = Len(users) + 1
             THEN resp'.status = 201
             ELSE users' = users /\ resp'.status = 400]_vars

\* C13: PUT /api/auth/profile with the correct current password changes only
\* what the request supplies: without email the email stays, without
\* newPassword the credential hash stays, with newPassword the hash becomes
\* that password's; name, phone and role stay, and no other account changes.
\* A request that is refused changes no account.
C13_ProfilePartialUpdate ==
    [][\A u \in TokenHolders, body \in AccountProfileBodies :
          AuthProfile(Token(u), body) =>
             /\ DOMAIN users' = DOMAIN users
             /\ \A v \in DOMAIN users : v # u => users'[v] = users[v]
             /\ \A f \in {"name", "phone", "role"} : users'[u][f] = users[u][f]
             /\ ~Has(body, "email") => users'[u].email = users[u].email
             /\ ~Has(body, "newPassword") => users'[u].passwordHash = users[u].passwordHash
             /\ (Has(body, "newPassword") /\ resp'.status = 200)
                   => users'[u].passwordHash = Hash(body.newPassword)
             /\ resp'.status # 200 => users' = users]_vars

\* A registered account changed its password alone: the request was answered
\* 200, the hash is the new password's and the email is the registered one.
C13_Witness ==
    /\ resp.op = "profile" /\ resp.status = 200
    /\ Len(users) = 2
    /\ users[2].passwordHash = Hash("pw3")
    /\ users[2].email = "asha@x.in"

\* The accounts whose role is admin.
Admins(accounts) == {u \in DOMAIN accounts : accounts[u].role = "admin"}

\* C24: no register, login, profile update, PUT /api/me or checkout changes
\* the role of an account or creates an admin: accounts stay, each with its
\* role, a new account has role user, and the set of admins is the same
\* after every step.
C24_RolesNeverChange ==
    [][/\ \A u \in DOMAIN users :
              u \in DOMAIN users' /\ users'[u].role = users[u].role
       /\ \A u \in DOMAIN users' \ DOMAIN users : users'[u].role = "user"
       /\ Admins(users') = Admins(users)]_vars

\* An account registered with role admin in its body renamed itself with
\* role admin in the body of PUT /api/me, and a guest account exists: both
\* have role user and the seeded account is the only admin.
C24_Witness ==
    /\ resp.op = "putMe" /\ resp.status = 200
    /\ Admins(users) = {1}
    /\ \E u, g \in DOMAIN users :
          /\ users[u].name = "Root" /\ users[u].email = "m@x.in"
          /\ users[u].role = "user"
          /\ users[g].passwordHash = Hash("random") /\ users[g].role = "user"

-----------------------------------------------------------------------------
(* Order administration properties *)

\* C12: an admin's DELETE /api/admin/orders/:id on an order whose status is
\* pending is rejected, and the order stays in the order store.
C12_PendingOrderNotDeletable ==
    [][\A id \in OrderIds :
          (/\ id \in DOMAIN orders
           /\ orders[id].status = "pending"
           /\ AdminOrderDelete(Token(1), id))
          => /\ id \in DOMAIN orders'
             /\ resp'.status >= 400]_vars

\* C15: PUT /api/admin/orders/:id/status on an existing order sets its status
\* to the status supplied, or to completed when the request supplies none (an
\* empty status counts as none), and leaves the order's items, total,
\* delivery address, owner and creation time, and every other order, as
\* they were.
C15_StatusUpdateDefaultsCompleted ==
    [][\A id \in OrderIds, body \in StatusBodies :
          (id \in DOMAIN orders /\ AdminOrderStatus(Token(1), id, body)) =>
             /\ resp'.status = 200
             /\ DOMAIN orders' = DOMAIN orders
             /\ orders'[id].status = IF Has(body, "status") /\ body.status # ""
                                     THEN body.status ELSE "completed"
             /\ DOMAIN orders'[id] = DOMAIN orders[id]
             /\ \A f \in DOMAIN orders[id] \ {"status"} : orders'[id][f] = orders[id][f]
             /\ \A i \in DOMAIN orders : i # id => orders'[i] = orders[i]]_vars

\* A status update was answered 200 with one order cancelled on request,
\* the other completed by default, and both with their items and owner.
C15_Witness ==
    /\ resp.op = "orderStatus" /\ resp.status = 200
    /\ \E i, j \in DOMAIN orders :
          /\ orders[i].status = "cancelled" /\ orders[j].status = "completed"
          /\ orders[i].items # <<>> /\ orders[j].items # <<>>
          /\ orders[i].userId \in DOMAIN users /\ orders[j].userId \in DOMAIN users

\* C21: the status of every stored order is one of pending, completed or
\* cancelled, whatever status values the admin submits to the status route.
C21_StatusInEnum ==
    \A i \in DOMAIN orders : orders[i].status \in {"pending", "completed", "cancelled"}

-----------------------------------------------------------------------------
(* Catalog properties *)

\* The fields a product update request carries.
Sent(body, file) == DOMAIN body \cup (IF file = "stored" THEN {"image"} ELSE {})

\* C14: PUT /api/admin/products/:id changes only fields present in the
\* request: every field the request omits (the image when no file is
\* uploaded) keeps its prior value, no field appears or disappears, and no
\* other product is created, changed or removed.
C14_ProductPartialUpdate ==
    [][\A u \in ProductUpdates :
          AdminProductUpdate(Token(1), 1, u[1], u[2]) =>
             /\ DOMAIN products' = DOMAIN products
             /\ \A id \in DOMAIN products : id # 1 => products'[id] = products[id]
             /\ 1 \in DOMAIN products =>
                   \A f \in (DOMAIN products[1] \cup DOMAIN products'[1]) \ Sent(u[1], u[2]) :
                      /\ f \in DOMAIN products[1] /\ f \in DOMAIN products'[1]
                      /\ products'[1][f] = products[1][f]]_vars

\* Product 1 was renamed with a new image by a request that carried no
\* usable price, after an earlier request had changed its price only: the
\* price, category, unit and description are those the requests left alone.
C14_Witness ==
    /\ resp.op = "productUpdate" /\ resp.status = 200
    /\ 1 \in DOMAIN products
    /\ products[1].name = "Basmati" /\ products[1].image = SecureUrl
    /\ products[1].price = 95 /\ products[1].category = "Essentials"
    /\ products[1].unit = "1 kg packet" /\ products[1].description = "Basmati rice"

\* The step answered 404 and changed neither the catalog nor the orders.
NotFoundNoChange ==
    resp'.status = 404 /\ products' = products /\ orders' = orders

\* C23: product update, product delete, order status update and order delete
\* by the admin answer 404 when no product or order has the identifier, and
\* leave the catalog and the order store unchanged.  (Product updates whose
\* upload fails are left out: they end before the lookup.)
C23_UnknownIdNotFound ==
    [][/\ \A u \in ProductUpdates :
              (/\ 1 \notin DOMAIN products /\ u[2] # "rejected"
               /\ AdminProductUpdate(Token(1), 1, u[1], u[2])) => NotFoundNoChange
       /\ \A id \in ProductIds :
              (id \notin DOMAIN products /\ AdminProductDelete(Token(1), id))
                 => NotFoundNoChange
       /\ \A id \in OrderIds :
              (id \notin DOMAIN orders /\ AdminOrderStatus(Token(1), id, [other |-> 0]))
                 => NotFoundNoChange
       /\ \A id \in OrderIds :
              (id \notin DOMAIN orders /\ AdminOrderDelete(Token(1), id))
                 => NotFoundNoChange]_vars

-----------------------------------------------------------------------------
(* Order history properties *)

\* C16: the authenticated checkout takes the owner from the verified token
\* and stores the order under it, whatever the body says; an order's owner
\* never changes; and GET /api/orders/my returns, each once, exactly the
\* stored orders whose owner is the caller.
C16_HistoryIsCallersOrders ==
    [][/\ \A u \in TokenHolders, body \in HistoryBodies :
             (AuthOrderStart(1, Token(u), body) /\ reqs'[1].pc = "createOrder")
                => reqs'[1].uid = u
       /\ AuthOrderCreate(1, TRUE) =>
             /\ DOMAIN orders' = DOMAIN orders \cup {nextOrderId}
             /\ orders'[nextOrderId].userId = reqs[1].uid
       /\ \A i \in DOMAIN orders \cap DOMAIN orders' :
             orders'[i].userId = orders[i].userId
       /\ \A u \in TokenHolders :
             GetMyOrders(Token(u)) =>
                /\ resp'.status = 200
                /\ Range(resp'.list) = {i \in DOMAIN orders : orders[i].userId = u}
                /\ Len(resp'.list) = Cardinality(Range(resp'.list))]_vars

\* The registered account read a history of one order, its own, placed with
\* a body naming the admin as userId, while the admin owned another order.
C16_Witness ==
    /\ resp.op = "myOrders" /\ resp.status = 200
    /\ Len(resp.list) = 1
    /\ orders[resp.list[1]].userId = 2
    /\ Has(orders[resp.list[1]], "total") /\ orders[resp.list[1]].total = 60
    /\ \E j \in DOMAIN orders : orders[j].userId = 1

-----------------------------------------------------------------------------
(* Checkout failure properties *)

\* The step answers a checkout.
CheckoutAnswered == resp'.op \in {"guest", "auth"} /\ resp'.status # 0

C20_GuestCheckoutNotAtomic ==
    [][/\ (GuestCreate(1, FALSE) /\ ~EmailTaken(GuestEmail(reqs[1].stamp))) =>
             /\ resp'.op = "guest" /\ resp'.status = 500
             /\ reqs'[1] = Idle
             /\ orders' = orders /\ nextOrderId' = nextOrderId
             /\ received' = received
             /\ users' = Append(users, GuestDoc(reqs[1].body, reqs[1].stamp))
             /\ \A i \in DOMAIN orders' : orders'[i].userId # Len(users')
       /\ \A u \in DOMAIN users : u \in DOMAIN users' /\ users'[u] = users[u]]_vars

\* A guest checkout was answered 500, and a guest account without any order
\* is in the account store while a subscriber is connected and has received
\* nothing.
C20_Witness ==
    /\ resp.op = "guest" /\ resp.status = 500
    /\ reqs[1] = Idle
    /\ \E u \in DOMAIN users :
          /\ users[u].passwordHash = Hash("random")
          /\ \A i \in DOMAIN orders : orders[i].userId # u
    /\ \E c \in Conns : conns[c].st = "open" /\ received[c] = <<>>

=============================================================================
